---- MODULE Spec2Model ----
(***************************************************************************)
(* Model of imagefaces.py: a pool of worker processes maps process_image   *)
(* over the list of input paths (Pool.imap), the main process collects the *)
(* face counts in input order and prints the summary.  The output          *)
(* directory is the only state shared by the workers and it survives from  *)
(* one run of the script to the next.                                      *)
(***************************************************************************)
EXTENDS Integers, Sequences, FiniteSets, TLC

\* ------------------------------------------------------------------ bounds
MaxItems   == 2   \* longest input list
MaxWorkers == 2   \* largest --jobs value
MaxFaces   == 1   \* most boxes / descriptors the detection library returns
MaxRuns    == 2   \* runs of the script over the same inputs
MaxSide    == 4   \* largest width or height of a source image
MaxResize  == 3   \* largest --image-resize value
MaxTag     == 9   \* EXIF orientation values run over 0..MaxTag

\* ------------------------------------------------------------ file system
Output == "out"                       \* args.output
Stems  == {"x", "y"}
Exts   == {"jpg", "png"}

\* A path is the record of its directory, stem and suffix (pathlib's view).
\* The inputs: two stems, one stem under two suffixes, and one stem in two
\* directories, one of them the output directory itself.
InputPaths ==
    { [dir |-> "in",   stem |-> "x", ext |-> "jpg"],
      [dir |-> "in",   stem |-> "y", ext |-> "jpg"],
      [dir |-> "in",   stem |-> "x", ext |-> "png"],
      [dir |-> Output, stem |-> "x", ext |-> "jpg"] }
OutFiles   == [dir : {Output}, stem : Stems, ext : Exts \cup {"json"}]
Files      == InputPaths \cup OutFiles

Absent  == [kind |-> "absent"]
Source  == [kind |-> "source"]        \* an image the user supplied
Partial == [kind |-> "partial"]       \* opened for writing, dump unfinished

VARIABLES
    paths,           \* the input list (line 25-34), fixed for all runs
    jobs,            \* args.jobs
    generate_image,  \* args.generate_image
    fs,              \* file path -> content
    run,             \* number of the current run of the script
    phase,           \* "running", "done", "aborted" (exception), "killed"
    nextTask,        \* index of the next task in the pool's task queue
    pc,              \* worker -> position inside process_image
    cur,             \* worker -> index of its item, 0 when it has none
    locations,       \* worker -> local variable locations
    encodings,       \* worker -> local variable encodings
    results,         \* item -> what the worker sent back
    facecounts,      \* results consumed by the main process, in order
    summaries,       \* number of summary lines printed in this run
    total,           \* the face count of the summary line
    claimedBy,       \* item -> workers that took it (history)
    branch,          \* item -> "skip" or "process", the branch of line 63
    writers,         \* file -> items that wrote it in this run (history)
    startFs,         \* fs as it was when this run started (history)
    prevPhase,       \* how the previous run ended, "none" in the first
    prevOutcome,     \* item -> how it ended in the previous run (history)
    stages,          \* item -> the statements of process_image run for it
    ticks,           \* steps the progress bar has advanced in this run
    rawImage,        \* prepare_image on its own: the decoded file,
    image_resize,    \*   args.image_resize,
    img              \*   and the image prepare_image returns

vars == <<paths, jobs, generate_image, fs, run, phase, nextTask, pc, cur,
          locations, encodings, results, facecounts, summaries, total,
          claimedBy, branch, writers, startFs, prevPhase, prevOutcome,
          stages, ticks, rawImage, image_resize, img>>

config  == <<paths, jobs, generate_image>>
locals  == <<locations, encodings>>
mainst  == <<facecounts, summaries, total, ticks>>
runst   == <<run, phase, startFs, prevPhase, prevOutcome>>
orient  == <<rawImage, image_resize, img>>

Items   == 1..Len(paths)
Workers == 1..jobs

\* ------------------------------------------------------------ pure helpers
RECURSIVE SumSeq(_)
SumSeq(s) == IF s = <<>> THEN 0 ELSE Head(s) + SumSeq(Tail(s))

\* A list of n opaque elements (boxes or descriptors).
ListOf(n) == [k \in 1..n |-> k]

\* line 61: f"{args.output}/{path.stem}.json"
JsonOutPathFixed(path) == [dir |-> Output, stem |-> "x", ext |-> "json"]
JsonOutPath(path) == [dir |-> Output, stem |-> path.stem, ext |-> "json"]

\* line 62: f"{args.output}/{path.name}"
ImgOutPath(path) == [dir |-> Output, stem |-> path.stem, ext |-> path.ext]

\* Path(...).exists()
Exists(f) == fs[f] # Absent

\* line 63: the path whose existence decides the skip
CheckedPathImg(path) == ImgOutPath(path)
CheckedPath(path) == JsonOutPath(path)

\* lines 74-79: the dictionary given to json.dump
RecordWrongSource(path, locs, encs) ==
    [kind |-> "record", locations |-> locs,
     encodings |-> [k \in 1..Len(encs) |-> encs[k]],
     source |-> ImgOutPath(path), destination |-> ImgOutPath(path)]
Record(path, locs, encs) ==
    [kind |-> "record", locations |-> locs,
     encodings |-> [k \in 1..Len(encs) |-> encs[k]],   \* encoding.tolist() each
     source |-> path, destination |-> ImgOutPath(path)]

\* lines 84-88: the image with one rectangle per location
Annotated(path, locs) == [kind |-> "image", of |-> path, boxes |-> locs]

NoResult     == [st |-> "none", n |-> 0, err |-> "none"]
Value(n)     == [st |-> "ok",   n |-> n, err |-> "none"]
Raised(what) == [st |-> "exc",  n |-> 0, err |-> what]

\* ------------------------------------------------------- prepare_image
NoImage == [kind |-> "none"]

Max(a, b) == IF a >= b THEN a ELSE b

\* lines 36-40: the EXIF dictionary, a set of <<tag name, value>> pairs
get_exif(image) == image.exif

\* line 50: dict.setdefault(key, default)
SetDefault(dict, key, default) ==
    IF \E e \in dict : e[1] = key
    THEN (CHOOSE e \in dict : e[1] = key)[2]
    ELSE default

\* line 47: Image.thumbnail((s, s)): shrink to fit, never enlarge
Thumbnail(size, s) ==
    LET x1 == IF size[1] > s THEN s ELSE size[1]
        y1 == IF size[1] > s THEN Max((size[2] * s) \div size[1], 1) ELSE size[2]
        x2 == IF y1 > s THEN Max((x1 * s) \div y1, 1) ELSE x1
        y2 == IF y1 > s THEN s ELSE y1
    IN  <<x2, y2>>

\* lines 51-56: the rotation, in degrees, chosen for an orientation value
RotationForSwapped(o) ==
    IF o = 6 THEN 90 ELSE IF o = 3 THEN 180 ELSE IF o = 8 THEN 270 ELSE 0
RotationFor(o) ==
    IF o = 8 THEN 90 ELSE IF o = 3 THEN 180 ELSE IF o = 6 THEN 270 ELSE 0

\* Image.transpose(ROTATE_90 | ROTATE_180 | ROTATE_270)
Transpose(image, degrees) ==
    [kind |-> "image",
     size |-> IF degrees \in {90, 270}
                THEN <<image.size[2], image.size[1]>> ELSE image.size,
     rotation |-> (image.rotation + degrees) % 360]

\* lines 42-58
prepare_image(raw, s) ==
    LET small == [kind |-> "image", size |-> Thumbnail(raw.size, s), rotation |-> 0]
        o == SetDefault(get_exif(raw), "Orientation", 1)
    IN  IF RotationFor(o) # 0 THEN Transpose(small, RotationFor(o)) ELSE small

RawImages ==
    [size : (1..MaxSide) \X (1..MaxSide),
     exif : {{}} \cup {{<<"Orientation", t>>} : t \in 0..MaxTag}]

\* ------------------------------------------------------------------- Init
RECURSIVE SeqsUpTo(_, _)
SeqsUpTo(S, n) ==
    IF n = 0 THEN {<<>>}
    ELSE LET shorter == SeqsUpTo(S, n - 1)
         IN  shorter \cup {Append(s, x) : s \in {t \in shorter : Len(t) = n - 1}, x \in S}

\* The state of a run that has not begun any work.
Fresh ==
    /\ phase = "running"
    /\ nextTask = 1
    /\ pc = [w \in Workers |-> "idle"]
    /\ cur = [w \in Workers |-> 0]
    /\ locations = [w \in Workers |-> <<>>]
    /\ encodings = [w \in Workers |-> <<>>]
    /\ results = [i \in Items |-> NoResult]
    /\ facecounts = <<>>
    /\ summaries = 0
    /\ total = 0
    /\ ticks = 0
    /\ claimedBy = [i \in Items |-> {}]
    /\ branch = [i \in Items |-> "none"]
    /\ stages = [i \in Items |-> <<>>]
    /\ writers = [f \in Files |-> {}]
    /\ startFs = fs
    /\ prevPhase = "none"
    /\ prevOutcome = [i \in Items |-> "none"]

Init ==
    /\ paths \in SeqsUpTo(InputPaths, MaxItems)
    /\ jobs \in 1..MaxWorkers
    /\ generate_image \in BOOLEAN
    /\ fs = [f \in Files |->
               IF \E i \in 1..Len(paths) : paths[i] = f THEN Source ELSE Absent]
    /\ run = 1
    /\ Fresh
    /\ rawImage = [size |-> <<1, 1>>, exif |-> {}]
    /\ image_resize = 1
    /\ img = NoImage

\* ---------------------------------------------------------------- workers
\* The worker sends the outcome of process_image back and is free again.
Reply(w, r) ==
    /\ results' = [results EXCEPT ![cur[w]] = r]
    /\ pc' = [pc EXCEPT ![w] = "idle"]
    /\ cur' = [cur EXCEPT ![w] = 0]
    /\ locations' = [locations EXCEPT ![w] = <<>>]
    /\ encodings' = [encodings EXCEPT ![w] = <<>>]

Goto(w, label) ==
    /\ pc' = [pc EXCEPT ![w] = label]
    /\ UNCHANGED <<cur, results>>

\* The statements named in ss were run for the item of worker w.
Stage(w, ss) == stages' = [stages EXCEPT ![cur[w]] = @ \o ss]

\* A pool worker asks for a task only when it has none.
FreeAlways(w) == TRUE
Free(w) == pc[w] = "idle"

\* A pool worker takes the next task of the queue filled by imap.
Claim(w) ==
    /\ phase = "running"
    /\ Free(w)
    /\ nextTask <= Len(paths)
    /\ cur' = [cur EXCEPT ![w] = nextTask]
    /\ pc' = [pc EXCEPT ![w] = "check"]
    /\ claimedBy' = [claimedBy EXCEPT ![nextTask] = @ \cup {w}]
    /\ nextTask' = nextTask + 1
    /\ UNCHANGED <<config, orient, fs, runst, locals, results, mainst, branch,
                   stages, writers>>

\* lines 90-91: the result file exists: return 0 and do nothing else.
SkipRedraws(w) ==
    /\ Reply(w, Value(0))
    /\ branch' = [branch EXCEPT ![cur[w]] = "skip"]
    /\ LET f == ImgOutPath(paths[cur[w]])
       IN  IF generate_image /\ ~Exists(f)
           THEN /\ fs' = [fs EXCEPT ![f] = Annotated(paths[cur[w]], <<>>)]
                /\ writers' = [writers EXCEPT ![f] = @ \cup {cur[w]}]
           ELSE UNCHANGED <<fs, writers>>
    /\ UNCHANGED stages
Skip(w) ==
    /\ Reply(w, Value(0))
    /\ branch' = [branch EXCEPT ![cur[w]] = "skip"]
    /\ UNCHANGED <<fs, writers, stages>>

\* lines 61-63 and 90-91: skip the item when its result file exists.
CheckExists(w) ==
    /\ phase = "running"
    /\ pc[w] = "check"
    /\ IF ~Exists(CheckedPath(paths[cur[w]]))
         THEN /\ Goto(w, "prepare")
              /\ branch' = [branch EXCEPT ![cur[w]] = "process"]
              /\ UNCHANGED <<locals, fs, writers, stages>>
         ELSE Skip(w)
    /\ UNCHANGED <<config, orient, runst, nextTask, mainst, claimedBy>>

\* line 64: prepare_image returns the image.
Prepare(w) ==
    /\ phase = "running"
    /\ pc[w] = "prepare"
    /\ Exists(paths[cur[w]])
    /\ Goto(w, "detect")
    /\ Stage(w, <<"normalize">>)
    /\ UNCHANGED <<config, orient, fs, runst, nextTask, locals, mainst, claimedBy,
                   branch, writers>>

\* line 64: Image.open raises (missing, unreadable or no image).
PrepareRaisesAfterOpen(w) ==
    /\ phase = "running"
    /\ pc[w] = "prepare"
    /\ LET f == JsonOutPath(paths[cur[w]])
       IN  /\ fs' = [fs EXCEPT ![f] = Partial]
           /\ writers' = [writers EXCEPT ![f] = @ \cup {cur[w]}]
    /\ Stage(w, <<"normalize">>)
    /\ Reply(w, Raised("load"))
    /\ UNCHANGED <<config, orient, runst, nextTask, mainst, claimedBy, branch>>
PrepareRaises(w) ==
    /\ phase = "running"
    /\ pc[w] = "prepare"
    /\ Stage(w, <<"normalize">>)
    /\ Reply(w, Raised("load"))
    /\ UNCHANGED <<config, orient, fs, runst, nextTask, mainst, claimedBy, branch,
                   writers>>

\* line 67: face_encodings is called when there is a box
CallsEncodingsAlways(n) == TRUE
CallsEncodings(n) == n > 0

\* lines 65-70: face_locations, then face_encodings unless there is no box.
\* The library is opaque: any number of boxes and of descriptors.
Detect(w) ==
    /\ phase = "running"
    /\ pc[w] = "detect"
    /\ \E n \in 0..MaxFaces :
          /\ locations' = [locations EXCEPT ![w] = ListOf(n)]
          /\ IF CallsEncodings(n)
               THEN /\ \E m \in 0..MaxFaces :
                          encodings' = [encodings EXCEPT ![w] = ListOf(m)]
                    /\ Stage(w, <<"detect", "encode">>)
               ELSE /\ encodings' = [encodings EXCEPT ![w] = <<>>]
                    /\ Stage(w, <<"detect">>)
    /\ Goto(w, "open")
    /\ UNCHANGED <<config, orient, fs, runst, nextTask, mainst, claimedBy, branch,
                   writers>>

\* lines 66-68: the detection library raises, in face_locations or, when
\* there was a box, in face_encodings.
DetectRaises(w) ==
    /\ phase = "running"
    /\ pc[w] = "detect"
    /\ \/ Stage(w, <<"detect">>)
       \/ \E n \in 1..MaxFaces :
             CallsEncodings(n) /\ Stage(w, <<"detect", "encode">>)
    /\ Reply(w, Raised("detect"))
    /\ UNCHANGED <<config, orient, fs, runst, nextTask, mainst, claimedBy, branch,
                   writers>>

\* line 72: open(json_out_path, "w") creates or truncates the file.
OpenJson(w) ==
    /\ phase = "running"
    /\ pc[w] = "open"
    /\ LET f == JsonOutPath(paths[cur[w]])
       IN  /\ fs' = [fs EXCEPT ![f] = Partial]
           /\ writers' = [writers EXCEPT ![f] = @ \cup {cur[w]}]
    /\ Stage(w, <<"open">>)
    /\ Goto(w, "dump")
    /\ UNCHANGED <<config, orient, runst, nextTask, locals, mainst, claimedBy,
                   branch>>

\* line 72: open raises (permission denied, no such directory).
OpenRaises(w) ==
    /\ phase = "running"
    /\ pc[w] = "open"
    /\ Stage(w, <<"open">>)
    /\ Reply(w, Raised("persist"))
    /\ UNCHANGED <<config, orient, fs, runst, nextTask, mainst, claimedBy, branch,
                   writers>>

\* line 83: the annotated image is wanted
AnnotatesAlways == TRUE
Annotates == generate_image

\* lines 73-82 (and 89 with --no-image): json.dump writes the record.
Dump(w) ==
    /\ phase = "running"
    /\ pc[w] = "dump"
    /\ LET path == paths[cur[w]]
       IN  fs' = [fs EXCEPT ![JsonOutPath(path)] =
                      Record(path, locations[w], encodings[w])]
    /\ Stage(w, <<"dump">>)
    /\ IF Annotates
         THEN Goto(w, "save") /\ UNCHANGED locals
         ELSE Reply(w, Value(Len(locations[w])))
    /\ UNCHANGED <<config, orient, runst, nextTask, mainst, claimedBy, branch,
                   writers>>

\* lines 73-82: json.dump raises (disk full); the file stays as far as it
\* was written.
DumpRaises(w) ==
    /\ phase = "running"
    /\ pc[w] = "dump"
    /\ LET f == JsonOutPath(paths[cur[w]])
       IN  \E c \in {fs[f], Partial} : fs' = [fs EXCEPT ![f] = c]
    /\ Stage(w, <<"dump">>)
    /\ Reply(w, Raised("persist"))
    /\ UNCHANGED <<config, orient, runst, nextTask, mainst, claimedBy, branch,
                   writers>>

\* lines 83-89: draw the rectangles, save the image, return the count.
Save(w) ==
    /\ phase = "running"
    /\ pc[w] = "save"
    /\ LET path == paths[cur[w]]
           f == ImgOutPath(path)
       IN  /\ fs' = [fs EXCEPT ![f] = Annotated(path, locations[w])]
           /\ writers' = [writers EXCEPT ![f] = @ \cup {cur[w]}]
    /\ Stage(w, <<"annotate">>)
    /\ Reply(w, Value(Len(locations[w])))
    /\ UNCHANGED <<config, orient, runst, nextTask, mainst, claimedBy, branch>>

\* line 88: img.save raises.
SaveRaises(w) ==
    /\ phase = "running"
    /\ pc[w] = "save"
    /\ Stage(w, <<"annotate">>)
    /\ Reply(w, Raised("annotate"))
    /\ UNCHANGED <<config, orient, fs, runst, nextTask, mainst, claimedBy, branch,
                   writers>>

\* ----------------------------------------------------------- main process
\* imap's iterator hands a result over once the worker has sent it.
HasValueNoWait(r) == r.st # "exc"
HasValue(r) == r.st = "ok"

\* line 94: list(...) takes the next result of imap, in input order, and
\* the progress bar advances by one.
Collect ==
    /\ phase = "running"
    /\ Len(facecounts) < Len(paths)
    /\ HasValue(results[Len(facecounts) + 1])
    /\ facecounts' = Append(facecounts, results[Len(facecounts) + 1].n)
    /\ ticks' = ticks + 1
    /\ UNCHANGED <<config, orient, fs, runst, nextTask, pc, cur, locals, results,
                   summaries, total, claimedBy, branch, stages, writers>>

\* line 93-94: the next result is an exception: imap re-raises it in the
\* main process, the with block terminates the pool, the script dies.
CollectRaises ==
    /\ phase = "running"
    /\ Len(facecounts) < Len(paths)
    /\ results[Len(facecounts) + 1].st = "exc"
    /\ phase' = "aborted"
    /\ UNCHANGED <<config, orient, fs, run, startFs, prevPhase, prevOutcome,
                   stages, nextTask, pc, cur, locals, results,
                   mainst, claimedBy, branch, writers>>

\* line 95: the summary line.
Summary ==
    /\ phase = "running"
    /\ Len(facecounts) = Len(paths)
    /\ phase' = "done"
    /\ summaries' = summaries + 1
    /\ total' = SumSeq(facecounts)
    /\ UNCHANGED <<config, orient, fs, run, startFs, prevPhase, prevOutcome,
                   stages, nextTask, pc, cur, locals, results,
                   facecounts, ticks, claimedBy, branch, writers>>

\* ------------------------------------------------------------ environment
\* The script is interrupted: every process stops where it is.
Kill ==
    /\ phase = "running"
    /\ phase' = "killed"
    /\ UNCHANGED <<config, orient, fs, run, startFs, prevPhase, prevOutcome,
                   stages, nextTask, pc, cur, locals, results,
                   mainst, claimedBy, branch, writers>>

\* What a run leaves to say about item i: it was processed and had no
\* face, it raised before anything was written, or neither.
Outcome(i) ==
    IF branch[i] = "process" /\ results[i] = Value(0) THEN "zero"
    ELSE IF results[i].err \in {"load", "detect"} THEN "failed"
    ELSE "other"

\* The script is started again on the same inputs and options.
StartRun ==
    /\ phase # "running"
    /\ run < MaxRuns
    /\ run' = run + 1
    /\ phase' = "running"
    /\ prevPhase' = phase
    /\ prevOutcome' = [i \in Items |-> Outcome(i)]
    /\ startFs' = fs
    /\ nextTask' = 1
    /\ pc' = [w \in Workers |-> "idle"]
    /\ cur' = [w \in Workers |-> 0]
    /\ locations' = [w \in Workers |-> <<>>]
    /\ encodings' = [w \in Workers |-> <<>>]
    /\ results' = [i \in Items |-> NoResult]
    /\ facecounts' = <<>>
    /\ summaries' = 0
    /\ total' = 0
    /\ ticks' = 0
    /\ claimedBy' = [i \in Items |-> {}]
    /\ branch' = [i \in Items |-> "none"]
    /\ stages' = [i \in Items |-> <<>>]
    /\ writers' = [f \in Files |-> {}]
    /\ UNCHANGED <<config, orient, fs>>

WorkerStep(w) ==
    \/ Claim(w)
    \/ CheckExists(w)
    \/ Prepare(w)
    \/ PrepareRaises(w)
    \/ Detect(w)
    \/ DetectRaises(w)
    \/ OpenJson(w)
    \/ OpenRaises(w)
    \/ Dump(w)
    \/ DumpRaises(w)
    \/ Save(w)
    \/ SaveRaises(w)

Next ==
    \/ \E w \in Workers : WorkerStep(w)
    \/ Collect
    \/ CollectRaises
    \/ Summary
    \/ Kill
    \/ StartRun

Spec == Init /\ [][Next]_vars

\* ------------------------------------------- prepare_image on its own
\* One decoded file and one --image-resize value; no batch is running.
InitOrient ==
    /\ paths = <<>>
    /\ jobs = 1
    /\ generate_image = FALSE
    /\ fs = [f \in Files |-> Absent]
    /\ run = 1
    /\ Fresh
    /\ rawImage \in RawImages
    /\ image_resize \in 1..MaxResize
    /\ img = NoImage

\* lines 42-58: prepare_image(path)
PrepareImage ==
    /\ img = NoImage
    /\ img' = prepare_image(rawImage, image_resize)
    /\ UNCHANGED <<config, fs, runst, nextTask, pc, cur, locals, results,
                   mainst, claimedBy, branch, stages, writers, rawImage,
                   image_resize>>

NextOrient == PrepareImage

SpecOrient == InitOrient /\ [][NextOrient]_vars

\* ------------------------------------------------------------------ claims
JsonFiles == {f \in Files : f.dir = Output /\ f.ext = "json"}
IsRecord(c) == c.kind = "record"

\* The script ended on its own: summary printed, or died of an exception.
Ended == phase \in {"done", "aborted"}

DistinctStems ==
    \A i, j \in Items : i # j => paths[i].stem # paths[j].stem

RECURSIVE SumOver(_, _)
SumOver(f, S) ==
    IF S = {} THEN 0
    ELSE LET i == CHOOSE x \in S : TRUE IN f[i] + SumOver(f, S \ {i})

\* C1: a run that follows a run in which every item completed takes the
\* skip branch for every item it handles: no worker ever stands at a
\* normalize, detect, persist or annotate step, no file changes, and when
\* the run is over every item was skipped.
C1_IdempotentRerun ==
    (run > 1 /\ prevPhase = "done") =>
        /\ fs = startFs
        /\ \A i \in Items : branch[i] # "process"
        /\ \A w \in Workers : pc[w] \in {"idle", "check"}
        /\ \A f \in Files : writers[f] = {}
        /\ phase = "done" => \A i \in Items : branch[i] = "skip"

\* C1 witness: a second run over two inputs, after a complete first run
\* that found a face, has finished and skipped both.
C1_Witness ==
    /\ run = 2 /\ prevPhase = "done" /\ phase = "done"
    /\ Len(paths) = 2
    /\ \A i \in Items : branch[i] = "skip"
    /\ \E f \in JsonFiles : IsRecord(fs[f]) /\ Len(fs[f].locations) > 0

\* C2 (as claimed): once the script has stopped, for whatever reason, every
\* result file that exists holds a complete record, so that the next run
\* skips only completed items.
C2_Claimed ==
    phase # "running" => \A f \in JsonFiles : Exists(f) => IsRecord(fs[f])

\* C3 (as claimed): when the script has ended, every item has reached a
\* terminal state (skipped, processed or failed), also when an item raised.
C3_Claimed ==
    Ended => \A i \in Items : results[i].st # "none"

\* C4 (as claimed): no item is taken by two workers, and when the script
\* has ended every item was taken by exactly one.
C4_Claimed ==
    /\ \A i \in Items : Cardinality(claimedBy[i]) <= 1
    /\ Ended => \A i \in Items : Cardinality(claimedBy[i]) = 1

\* C5 (as claimed): the total of the summary line is the sum, over the
\* items that were processed or skipped, of the number of locations of the
\* record in the item's result file (stated for inputs with distinct
\* stems, where every item has a result file of its own).
C5_Claimed ==
    (phase = "done" /\ DistinctStems) =>
        total = SumOver([i \in Items |->
                            LET c == fs[JsonOutPath(paths[i])]
                            IN  IF IsRecord(c) THEN Len(c.locations) ELSE 0],
                        {i \in Items : results[i].st = "ok"})

\* C6: when the inputs have pairwise distinct base names (the name without
\* the suffix, which is what the result path is built from), no file is
\* written by two items of a run, neither a result file nor an image.
C6_NoWriteConflict ==
    DistinctStems => \A f \in Files : Cardinality(writers[f]) <= 1

\* C6 witness: two workers have each written the result file and the image
\* of their own item, the two items having distinct stems.
C6_Witness ==
    /\ DistinctStems /\ Len(paths) = 2 /\ generate_image
    /\ claimedBy[1] # claimedBy[2]
    /\ \A i \in Items :
          /\ writers[JsonOutPath(paths[i])] = {i}
          /\ writers[ImgOutPath(paths[i])] = {i}

\* C7 (as claimed): an item whose annotated image could not be written is
\* not failed: its result file holds its record and its face count is what
\* the worker hands to the main process.
C7_Claimed ==
    \A i \in Items :
        results[i].err = "annotate" =>
            /\ IsRecord(fs[JsonOutPath(paths[i])])
            /\ results[i].st = "ok"
            /\ results[i].n = Len(fs[JsonOutPath(paths[i])].locations)

\* C8 (as claimed): a script that has ended, items failed or not, has
\* printed the summary exactly once, after every item resolved.
C8_Claimed ==
    /\ summaries <= 1
    /\ summaries = 1 => \A i \in Items : results[i].st # "none"
    /\ Ended => summaries = 1

\* The items whose result file was there when the run started.
ExistedAtStart == {i \in Items : startFs[JsonOutPath(paths[i])] # Absent}

\* C9 (as claimed): with K of the N inputs having a result file when the
\* run starts, the run that has ended processed N-K items and skipped K
\* (stated for inputs with distinct stems, where every item has a result
\* file of its own).
C9_Claimed ==
    (Ended /\ DistinctStems) =>
        /\ Cardinality({i \in Items : branch[i] = "process"})
              = Len(paths) - Cardinality(ExistedAtStart)
        /\ Cardinality({i \in Items : branch[i] = "skip"})
              = Cardinality(ExistedAtStart)

\* C10 (as claimed): every record in a result file has as many encodings
\* as locations, whatever the detection library returned.
C10_Claimed ==
    \A f \in JsonFiles :
        IsRecord(fs[f]) => Len(fs[f].locations) = Len(fs[f].encodings)

\* ---------------------------------------------------- claims, continued
Range(s) == {s[k] : k \in 1..Len(s)}
IsPrefix(a, b) == Len(a) <= Len(b) /\ \A k \in 1..Len(a) : a[k] = b[k]
NotEncode(x) == x # "encode"
Processing == {"prepare", "detect", "open", "dump", "save"}

C11_State ==
    /\ \A w \in Workers :
          (pc[w] \in {"open", "dump", "save"} /\ locations[w] = <<>>) =>
              /\ encodings[w] = <<>>
              /\ "encode" \notin Range(stages[cur[w]])
    /\ \A i \in Items :
          Outcome(i) = "zero" =>
              /\ "encode" \notin Range(stages[i])
              /\ Exists(JsonOutPath(paths[i]))
    /\ \A i \in Items :
          (prevOutcome[i] = "zero" /\ branch[i] # "none") => branch[i] = "skip"

C11_Step ==
    \A w \in Workers :
        (/\ phase = "running" /\ pc[w] = "dump" /\ locations[w] = <<>>
         /\ pc'[w] # "dump" /\ results'[cur[w]].st # "exc") =>
            fs'[JsonOutPath(paths[cur[w]])] = Record(paths[cur[w]], <<>>, <<>>)

\* C11: when detection returns no box, face_encodings is not called, the
\* dump writes a record with empty locations and empty encodings, the
\* result file exists from then on, and the next run skips the item.
C11_ZeroFaces == []C11_State /\ [][C11_Step]_vars

\* C11 witness: an item that was processed with no face in the first run
\* is skipped in the second, its file holding the two empty lists.
C11_Witness ==
    /\ run = 2
    /\ \E i \in Items :
          /\ prevOutcome[i] = "zero" /\ branch[i] = "skip"
          /\ fs[JsonOutPath(paths[i])] = Record(paths[i], <<>>, <<>>)

\* The items whose outcome the worker has sent back.
Completed == {i \in Items : results[i].st # "none"}

TagOf(image) ==
    IF image.exif = {} THEN 1 ELSE (CHOOSE e \in image.exif : TRUE)[2]

\* C13: prepare_image rotates by 90 degrees for orientation 8, by 180 for
\* 3, by 270 for 6, and not at all for every other value or no tag.
C13_OrientationMapping ==
    img # NoImage =>
        LET o == TagOf(rawImage)
        IN  /\ o = 8 => img.rotation = 90
            /\ o = 3 => img.rotation = 180
            /\ o = 6 => img.rotation = 270
            /\ o \notin {8, 3, 6} => img.rotation = 0

\* C13 witness: a file with orientation 6, larger than the resize bound,
\* came out rotated by 270 degrees.
C13_Witness ==
    /\ img # NoImage
    /\ rawImage.exif = {<<"Orientation", 6>>}
    /\ rawImage.size[1] > image_resize
    /\ img.rotation = 270

StageOrder == <<"normalize", "detect", "open", "dump", "annotate">>

\* C14: the statements run for an item are a prefix of normalize, detect,
\* open, dump, annotate (face_encodings aside); annotate occurs only with
\* annotated images enabled; a skipped item runs none of them and an item
\* that returned its count ran all of them.
C14_StageOrder ==
    \A i \in Items :
        LET st == SelectSeq(stages[i], NotEncode)
        IN  /\ IsPrefix(st, StageOrder)
            /\ "annotate" \in Range(st) => generate_image
            /\ branch[i] = "skip" => st = <<>>
            /\ (branch[i] = "process" /\ results[i].st = "ok") =>
                  st = IF generate_image THEN StageOrder
                       ELSE SubSeq(StageOrder, 1, 4)

\* C14 witness: an item went through every stage, face_encodings and the
\* annotated image included, and returned its count.
C14_Witness ==
    \E i \in Items :
        /\ results[i].st = "ok"
        /\ stages[i] = <<"normalize", "detect", "encode", "open", "dump", "annotate">>

\* C15: the step that skips an item changes no file, runs no statement of
\* the pipeline for it and returns 0, with annotated images enabled or not.
C15_SkipChangesNothing ==
    [][\A i \in Items :
          (branch[i] = "none" /\ branch'[i] = "skip") =>
              /\ fs' = fs
              /\ writers' = writers
              /\ stages' = stages /\ stages[i] = <<>>
              /\ results'[i] = Value(0)]_vars

\* C15 witness: an item was skipped with annotated images enabled while
\* its annotated image is missing.
C15_Witness ==
    /\ generate_image
    /\ \E i \in Items :
          /\ branch[i] = "skip"
          /\ IsRecord(fs[JsonOutPath(paths[i])])
          /\ fs[ImgOutPath(paths[i])] = Absent

\* The inputs have pairwise distinct file names, suffix included.
DistinctNames ==
    \A i, j \in Items :
        i # j => <<paths[i].stem, paths[i].ext>> # <<paths[j].stem, paths[j].ext>>

Resumable(i) ==
    /\ results[i].err \in {"load", "detect"} => ~Exists(JsonOutPath(paths[i]))
    /\ Cardinality(claimedBy[i]) <= 1
    /\ (prevOutcome[i] = "failed" /\ branch[i] # "none") => branch[i] = "process"

\* C16 (as claimed): an item whose load or detect stage failed has no
\* result file afterwards, is taken once only in the run, and is processed
\* again, not skipped, by the next run (stated for inputs that are
\* different files with different names).
C16_Claimed == DistinctNames => \A i \in Items : Resumable(i)

\* C16 (amended): the same, for inputs of which no two share a stem.
C16_FailedStaysPending == DistinctStems => \A i \in Items : Resumable(i)

\* C16 witness: of two inputs with distinct stems, one failed to load or
\* to detect in the first run and is being processed again in the second.
C16_Witness ==
    /\ run = 2 /\ DistinctStems /\ Len(paths) = 2
    /\ \E i \in Items : prevOutcome[i] = "failed" /\ branch[i] = "process"

\* The items a worker has taken and not yet answered.
InFlight == {i \in Items : claimedBy[i] # {} /\ results[i].st = "none"}

\* C17: at most --jobs items are in flight, no worker has more than one,
\* and the item a worker stands in is in flight.
C17_BoundedPool ==
    /\ Cardinality(InFlight) <= jobs
    /\ \A w \in Workers : Cardinality({i \in InFlight : w \in claimedBy[i]}) <= 1
    /\ \A w \in Workers : pc[w] # "idle" => cur[w] \in InFlight

\* C17 witness: every worker is busy inside process_image while an item
\* still waits in the queue.
C17_Witness ==
    /\ Cardinality(InFlight) = jobs
    /\ nextTask <= Len(paths)
    /\ \A w \in Workers : pc[w] \in Processing

\* C18 (as claimed): no step of a run writes to the path of an input file.
C18_Claimed == \A i \in Items : writers[paths[i]] = {}

====
